---- MODULE Spec2Model ----
(***************************************************************************)
(* A model of tree-rs: the in-memory directory tree, the matcher           *)
(* (src/mark.rs), the renderer (src/render.rs) and the raw-byte input      *)
(* decoder and editor (src/input.rs).                                      *)
(*                                                                         *)
(* Text is modelled as sequences of character codes (a char produced by    *)
(* `byte as char` is the code point with the byte's value).  The tree      *)
(* drawing glyphs are written in ASCII:                                    *)
(*     "L-" = U+2514 U+2500   "T-" = U+251C U+2500      (Style::Full)      *)
(*     "L"  = U+2514          "T"  = U+251C             (Style::Compact)   *)
(*     "| " / "|" = U+2502 (+ blank), "  " / " " = blanks                  *)
(***************************************************************************)
EXTENDS Integers, Sequences, FiniteSets, TLC

VARIABLES
    tree,             \* the DirectoryNode tree: [n, parent, name] (immutable part)
    matched,          \* DirectoryNode.matched of every node
    re,               \* the compiled pattern last handed to the matcher / renderer
    ret,              \* value returned by the last mark_matched_nodes call
    style,            \* Style::Compact or Style::Full
    lines,            \* Vec<Line> returned by the last flatten_tree call
    op,               \* the operation that produced the current state
    pattern,          \* the pattern text being edited (a String, as its chars)
    pattern_is_valid, \* whether the pattern text compiled
    cursor_pos,       \* byte offset of the cursor in the pattern
    scroll,           \* index of the first line drawn
    screen_size,      \* (columns, rows) reported to the last render
    frame,            \* what the last completed render wrote to the terminal
    again,            \* the last render repeated the one before it, same arguments
    status,           \* "running", "panicked", "exhausted", "entered", "exited"
    fault,            \* what went wrong in the last operation, "none" if nothing
    stdin,            \* the bytes not yet read from standard input
    read,             \* the bytes read by the last get_input_chars call
    event,            \* the Event returned by the last get_input_chars call
    result,           \* what the last handle_input call returned
    terminal,         \* raw mode and the alternate screen: held, times released
    fs,               \* the directory snapshot the tree is built from
    running           \* src/main.rs: the directory is still being read

treeVars   == <<tree, matched, re, ret, style, lines>>
editVars   == <<pattern, pattern_is_valid, cursor_pos, scroll>>
renderVars == <<screen_size, frame, again>>
inputVars  == <<stdin, read, event, result>>
envVars    == <<terminal, fs, running>>

vars == <<tree, matched, re, ret, style, lines, op, pattern, pattern_is_valid,
          cursor_pos, scroll, screen_size, frame, again, status, fault,
          stdin, read, event, result, terminal, fs, running>>

---------------------------------------------------------------------------
(* Bounds of the model *)

MaxNodes == 4

\* the largest scroll offset a render is started with
MaxScroll == 6

\* the bytes that follow the first 4 of an input stream
MaxTail == 1

\* the longest pattern typed, in chars
MaxPattern == 2

\* the PageDown events applied with no render in between go this many steps
\* down
MaxPages == 2

---------------------------------------------------------------------------
(* Option<String>: None is the empty sequence, Some(s) the sequence <<s>> *)

None == <<>>
Some(s) == <<s>>

---------------------------------------------------------------------------
(* Text *)

\* file names, as character codes
NameA    == <<97>>                               \* "a"
NameXtxt == <<120, 46, 116, 120, 116>>           \* "x.txt"
NameBtxt == <<98, 46, 116, 120, 116>>            \* "b.txt"
NoName   == <<>>                                 \* path.file_name() is None
DotLabel == <<46>>                               \* "."

Names == {NameA, NameXtxt, NameBtxt}

\* compiled patterns of literal characters
RegexEmpty == <<>>                               \* ""
RegexX     == <<120>>                            \* "x"
RegexA     == <<97>>                             \* "a"
RegexTxt   == <<116, 120, 116>>                  \* "txt"
RegexZ     == <<122>>                            \* "z"

Regexes == {RegexEmpty, RegexX, RegexA, RegexTxt, RegexZ}

\* no pattern has been compiled yet
NoRegex == <<-1>>

Styles == {"Compact", "Full"}

\* Regex::is_match for a pattern of literal characters: an unanchored search
is_match(r, s) ==
    \E i \in 1..(Len(s) + 1) :
        /\ i + Len(r) - 1 <= Len(s)
        /\ SubSeq(s, i, i + Len(r) - 1) = r

---------------------------------------------------------------------------
(* The tree *)

Root == 1

Nodes == 1..tree.n

\* the children of node under the parent map p of k nodes, in stored order
RECURSIVE ChildrenFrom(_, _, _, _)
ChildrenFrom(p, k, node, i) ==
    IF i > k THEN <<>>
    ELSE (IF p[i] = node THEN <<i>> ELSE <<>>) \o ChildrenFrom(p, k, node, i + 1)

\* a tree of k nodes: parent map p, names nm, and the child vectors
MakeTree(k, p, nm) ==
    [n |-> k, parent |-> p, name |-> nm,
     children |-> [node \in 1..k |-> ChildrenFrom(p, k, node, 1)]]

\* node.children
children(node) == tree.children[node]

\* node.path.file_name()
has_file_name(node) == tree.name[node] # NoName
file_name(node) == tree.name[node]

\* node.color, fixed at build time: directories cyan, files magenta
color(node) == IF children(node) # <<>> THEN "CYAN" ELSE "MAGENTA"

\* every tree of at most MaxNodes nodes; node 1 is the root, a parent is
\* stored before its children, only the root may lack a final component
Trees ==
    UNION { { MakeTree(k, p, nm) :
                p \in { q \in [1..k -> 0..(k - 1)] :
                          /\ q[1] = 0
                          /\ \A i \in 2..k : q[i] >= 1 /\ q[i] < i },
                nm \in { f \in [1..k -> Names \cup {NoName}] :
                          /\ f[1] \in {NoName, NameA}
                          /\ \A i \in 2..k : f[i] # NoName } } :
            k \in 1..MaxNodes }

---------------------------------------------------------------------------
(* src/mark.rs *)

\* the name test made on the label the node is drawn with
name_matches_drawn_label(node, r) ==
    is_match(r, IF has_file_name(node) THEN file_name(node) ELSE DotLabel)

\* the name test of mark_matched_nodes
name_matches(node, r) == has_file_name(node) /\ is_match(r, file_name(node))

RECURSIVE mark_matched_nodes(_, _, _)
RECURSIVE MarkChildren(_, _, _, _)

\* the fold over node.children: every child is marked, in order
MarkChildren(kids, i, r, m) ==
    IF i > Len(kids) THEN m
    ELSE MarkChildren(kids, i + 1, r, mark_matched_nodes(kids[i], r, m))

\* mark_matched_nodes with `||` written for `|`: children of a matching
\* node are not visited
mark_node_short_circuit(node, r, m) ==
    LET kids == children(node)
        m1   == MarkChildren(kids, 1, r, m)
    IN  IF name_matches(node, r)
        THEN [m EXCEPT ![node] = TRUE]
        ELSE [m1 EXCEPT ![node] = \E i \in 1..Len(kids) : m1[kids[i]]]

\* one call's own work, given the flags m before the call: the new flags
mark_node(node, r, m) ==
    LET kids == children(node)
        m1   == MarkChildren(kids, 1, r, m)
    IN  [m1 EXCEPT ![node] =
            name_matches(node, r) \/ \E i \in 1..Len(kids) : m1[kids[i]]]

mark_matched_nodes(node, r, m) == mark_node(node, r, m)

\* the tree after a matcher call that filters it: the children that are not
\* matched (flags m) taken out of the child vectors
tree_after_mark_pruned(t, m) ==
    [t EXCEPT !.children =
        [node \in 1..t.n |-> SelectSeq(t.children[node], LAMBDA c : m[c])]]

\* what a mark_matched_nodes call leaves of the tree t apart from the flags
\* (m, the flags it has set): it assigns node.matched and nothing else
tree_after_mark(t, m) == t

---------------------------------------------------------------------------
(* src/render.rs: flatten_tree *)

connector(st, is_last) ==
    CASE st = "Compact" /\ is_last  -> "L"
      [] st = "Compact" /\ ~is_last -> "T"
      [] st = "Full" /\ is_last     -> "L-"
      [] st = "Full" /\ ~is_last    -> "T-"

\* child_prefix with the two segments exchanged
child_prefix_swapped(prefix, st, is_last) ==
    IF is_last
    THEN Append(prefix, IF st = "Compact" THEN "|" ELSE "| ")
    ELSE Append(prefix, IF st = "Compact" THEN " " ELSE "  ")

\* the prefix handed to the children of a node drawn with is_last
child_prefix(prefix, st, is_last) ==
    IF is_last
    THEN Append(prefix, IF st = "Compact" THEN " " ELSE "  ")
    ELSE Append(prefix, IF st = "Compact" THEN "|" ELSE "| ")

\* index_of_last_match with the raw last child taken instead
index_of_last_child(kids) == IF kids = <<>> THEN 0 ELSE Len(kids) - 1

\* index (0-based) of the last matched child, 0 when there is none
index_of_last_match(kids) ==
    LET hits == { i \in 1..Len(kids) : matched[kids[i]] }
    IN  IF hits = {} THEN 0
        ELSE (CHOOSE i \in hits : \A j \in hits : j <= i) - 1

\* the early return of flatten_tree, dropped: an unmatched node emits no
\* line of its own but its children are still walked
emit_own_line_only_pruned(node, own, below) ==
    IF ~matched[node] THEN below ELSE own \o below

\* the node's own line pushed after the loop over the children
emit_children_first(node, own, below) ==
    IF ~matched[node] THEN <<>> ELSE below \o own

\* the lines of one call: none for an unmatched node (the early return),
\* else the node's own line followed by the lines of its children
emit(node, own, below) ==
    IF ~matched[node] THEN <<>> ELSE own \o below

RECURSIVE flatten_tree(_, _, _, _)
RECURSIVE FlattenChildren(_, _, _, _, _, _)

FlattenChildren(kids, i, last, prefix, is_last, st) ==
    IF i > Len(kids) THEN <<>>
    ELSE flatten_tree(kids[i], child_prefix(prefix, st, is_last), (i - 1) = last, st)
         \o FlattenChildren(kids, i + 1, last, prefix, is_last, st)

\* (no node of the trees built here carries an error, so the label of a
\* line is the file name alone)
flatten_tree(node, prefix, is_last, st) ==
    LET kids == children(node)
        line == [node       |-> node,
                 first_part |-> Append(prefix, connector(st, is_last)),
                 last_part  |-> IF has_file_name(node) THEN file_name(node)
                                ELSE DotLabel,
                 color      |-> color(node)]
    IN  emit(node, <<line>>,
              FlattenChildren(kids, 1, index_of_last_match(kids), prefix, is_last, st))

---------------------------------------------------------------------------
(* Strings: a String is modelled by its chars; its bytes are their UTF-8     *)
(* encoding.  Every char of the program is below U+0100 (it comes from       *)
(* `u8 as char` or from a literal), so it takes one byte or two.             *)

utf8_len(c) == IF c < 128 THEN 1 ELSE 2

utf8(c) == IF c < 128 THEN <<c>> ELSE <<192 + (c \div 64), 128 + (c % 64)>>

\* str::len(): the length in bytes, one per char and one more for each
\* char that takes two
byte_len(s) == Len(s) + Cardinality({ i \in 1..Len(s) : utf8_len(s[i]) = 2 })

\* str::as_bytes()
RECURSIVE as_bytes(_)
as_bytes(s) == IF s = <<>> THEN <<>> ELSE utf8(Head(s)) \o as_bytes(Tail(s))

\* the byte offset n is a char boundary of s (str::is_char_boundary)
is_char_boundary(s, n) == \E k \in 0..Len(s) : byte_len(SubSeq(s, 1, k)) = n

\* &s[..n], for n a char boundary of s
slice_to(s, n) ==
    SubSeq(s, 1, CHOOSE k \in 0..Len(s) : byte_len(SubSeq(s, 1, k)) = n)

spaces(n) == [i \in 1..n |-> 32]

SatSub(a, b) == IF a > b THEN a - b ELSE 0

---------------------------------------------------------------------------
(* src/render.rs: fixed_length_string, render_tree, render_input, render *)

\* fixed_length_string panics when it has to cut s inside a char
fixed_length_panics(s, n) == byte_len(s) > n /\ ~is_char_boundary(s, n)

fixed_length_string(s, n) ==
    IF byte_len(s) < n THEN s \o spaces(n - byte_len(s))
    ELSE IF byte_len(s) > n THEN slice_to(s, n)
    ELSE s

\* Line::to_string(re, max_width): the clipped, highlighted text of a line
line_to_string(line, r, max_width) ==
    [kind |-> "line", line |-> line, re |-> r, width |-> max_width]

blank_row(max_width) == [kind |-> "blank", width |-> max_width]

\* tree.len() - scroll in render_tree underflows
row_count_underflows(ls, sc) == sc > Len(ls)

\* render_tree padding by max_height - tree.len(), the scroll left out
render_tree_pad_from_len(ls, max_width, max_height, sc, r, wrapped) ==
    LET left  == SatSub(Len(ls), sc)
        shown == IF left < max_height THEN left ELSE max_height
        pad   == IF wrapped THEN 0 ELSE SatSub(max_height, Len(ls))
    IN  [i \in 1..shown |-> line_to_string(ls[sc + i], r, max_width)]
        \o [i \in 1..pad |-> blank_row(max_width)]

\* the rows render_tree writes; wrapped tells that tree.len() - scroll
\* wrapped around, which leaves the range of padding rows empty
render_tree(ls, max_width, max_height, sc, r, wrapped) ==
    LET left  == SatSub(Len(ls), sc)
        shown == IF left < max_height THEN left ELSE max_height
        pad   == IF wrapped THEN 0 ELSE SatSub(max_height, left)
    IN  [i \in 1..shown |-> line_to_string(ls[sc + i], r, max_width)]
        \o [i \in 1..pad |-> blank_row(max_width)]

hex_digit(d) == IF d < 10 THEN 48 + d ELSE 87 + d

\* format!("0x{byte:02x} ")
hex_byte(b) == <<48, 120, hex_digit(b \div 16), hex_digit(b % 16), 32>>

RECURSIVE hex_dump(_)
hex_dump(bytes) ==
    IF bytes = <<>> THEN <<>> ELSE hex_byte(Head(bytes)) \o hex_dump(Tail(bytes))

\* "Invalid Pattern "
InvalidPatternText ==
    <<73, 110, 118, 97, 108, 105, 100, 32, 80, 97, 116, 116, 101, 114, 110, 32>>

\* "Pattern: "
PatternLabel == <<80, 97, 116, 116, 101, 114, 110, 58, 32>>

\* "Ctrl+D to exit"
HelpText == <<67, 116, 114, 108, 43, 68, 32, 116, 111, 32, 101, 120, 105, 116>>

\* the status texts with the validity flag left out of the first
input_texts_flag_ignored(pat, valid) ==
    << hex_dump(as_bytes(pat)), PatternLabel \o pat, HelpText >>

\* the three texts of the status rows, before they are cut to the width
input_texts(pat, valid) ==
    << (IF valid THEN <<>> ELSE InvalidPatternText) \o hex_dump(as_bytes(pat)),
       PatternLabel \o pat,
       HelpText >>

render_input_panics(pat, valid, size) ==
    \E i \in 1..3 : fixed_length_panics(input_texts(pat, valid)[i], size[1])

render_input(pat, valid, size) ==
    [i \in 1..3 |-> fixed_length_string(input_texts(pat, valid)[i], size[1])]

\* the clamp of render, to the number of lines instead of the last index
clamp_scroll_to_len(sc, n) == IF sc >= n THEN n ELSE sc

\* the clamp of render, with > written for >=
clamp_scroll_above_only(sc, n) == IF sc > n THEN SatSub(n, 1) ELSE sc

\* the scroll correction of render
clamp_scroll(sc, n) == IF sc >= n THEN SatSub(n, 1) ELSE sc

\* the scroll render_tree is called with, read before the correction
draw_scroll_before_clamp(before, after) == before

\* the scroll render_tree is called with: *scroll, after the correction
draw_scroll(before, after) == after

---------------------------------------------------------------------------
(* src/input.rs: the decoder *)

BACKSPACE == 8
DEL       == 127
CTRL_U    == 21
CTRL_D    == 4
ENTER     == 13
ESCAPE    == 27

LBRACKET  == 91      \* 0x5b '['
KEY_C     == 67      \* 0x43 'C'
KEY_D     == 68      \* 0x44 'D'
KEY_5     == 53      \* 0x35 '5'
KEY_6     == 54      \* 0x36 '6'
KEY_1     == 49      \* 0x31 '1'
KEY_4     == 52      \* 0x34 '4'
TILDE     == 126     \* 0x7e '~'

Key(c)        == [kind |-> "Key", ch |-> c]
Direction(d)  == [kind |-> "Direction", dir |-> d]
Navigation(n) == [kind |-> "Navigation", nav |-> n]
Backspace     == [kind |-> "Backspace"]
Clear         == [kind |-> "Clear"]
Enter         == [kind |-> "Enter"]
Exit          == [kind |-> "Exit"]

\* `buffer[0] as char`: the char whose code point is the byte's value
as_char(b) == b

\* the result of a decoding step: the event and the number of bytes it read;
\* a read from an empty stream is a failed read_exact and reads nothing
Got(e, k) == [event |-> e, n |-> k]

\* handle_nav_key answering from the selector alone, the next byte unread
handle_nav_key_unconfirmed(s, char_value, nav) == Got(Navigation(nav), 0)

\* handle_nav_key answering an unconfirmed selector with the selector itself
handle_nav_key_keeps_selector(s, char_value, nav) ==
    IF s = <<>> THEN Got(Key(char_value), 0)
    ELSE IF s[1] = TILDE THEN Got(Navigation(nav), 1)
    ELSE Got(Key(char_value), 1)

\* handle_nav_key, reading from s
handle_nav_key(s, char_value, nav) ==
    IF s = <<>> THEN Got(Key(char_value), 0)
    ELSE IF s[1] = TILDE THEN Got(Navigation(nav), 1)
    ELSE Got(Key(as_char(s[1])), 1)

\* the selector match with the arms of 'C' and 'D' exchanged
csi_selector_swapped(b2, rest) ==
    CASE b2 = KEY_C -> Got(Direction("Left"), 0)
      [] b2 = KEY_D -> Got(Direction("Right"), 0)
      [] b2 = KEY_5 -> handle_nav_key(rest, as_char(b2), "PageUp")
      [] b2 = KEY_6 -> handle_nav_key(rest, as_char(b2), "PageDown")
      [] b2 = KEY_1 -> handle_nav_key(rest, as_char(b2), "Home")
      [] b2 = KEY_4 -> handle_nav_key(rest, as_char(b2), "End")
      [] OTHER      -> Got(Key(as_char(b2)), 0)

\* the selector match with every digit taken for a navigation selector
csi_selector_any_digit(b2, rest) ==
    CASE b2 = KEY_C -> Got(Direction("Right"), 0)
      [] b2 = KEY_D -> Got(Direction("Left"), 0)
      [] b2 = KEY_5 -> handle_nav_key(rest, as_char(b2), "PageUp")
      [] b2 = KEY_6 -> handle_nav_key(rest, as_char(b2), "PageDown")
      [] b2 = KEY_1 -> handle_nav_key(rest, as_char(b2), "Home")
      [] b2 = KEY_4 -> handle_nav_key(rest, as_char(b2), "End")
      [] b2 \in 48..57 /\ b2 \notin {KEY_5, KEY_6, KEY_1, KEY_4}
                    -> handle_nav_key(rest, as_char(b2), "End")
      [] OTHER      -> Got(Key(as_char(b2)), 0)

\* the match on the CSI selector b2 in handle_control_keys; rest follows b2
csi_selector(b2, rest) ==
    CASE b2 = KEY_C -> Got(Direction("Right"), 0)
      [] b2 = KEY_D -> Got(Direction("Left"), 0)
      [] b2 = KEY_5 -> handle_nav_key(rest, as_char(b2), "PageUp")
      [] b2 = KEY_6 -> handle_nav_key(rest, as_char(b2), "PageDown")
      [] b2 = KEY_1 -> handle_nav_key(rest, as_char(b2), "Home")
      [] b2 = KEY_4 -> handle_nav_key(rest, as_char(b2), "End")
      [] OTHER      -> Got(Key(as_char(b2)), 0)

\* handle_control_keys answering a byte other than '[' with the ESC it was
\* called with
handle_control_keys_outer_char(s, char_value) ==
    IF s = <<>> THEN Got(Key(char_value), 0)
    ELSE IF s[1] # LBRACKET THEN Got(Key(char_value), 1)
    ELSE IF Len(s) = 1 THEN Got(Key(char_value), 1)
    ELSE LET r == csi_selector(s[2], SubSeq(s, 3, Len(s)))
         IN  Got(r.event, 2 + r.n)

\* handle_control_keys, reading from s (the bytes after ESC); char_value is
\* the parameter: the `let char_value` of the first match is local to its arm
handle_control_keys(s, char_value) ==
    IF s = <<>> THEN Got(Key(char_value), 0)
    ELSE IF s[1] # LBRACKET THEN Got(Key(as_char(s[1])), 1)
    ELSE IF Len(s) = 1 THEN Got(Key(char_value), 1)
    ELSE LET r == csi_selector(s[2], SubSeq(s, 3, Len(s)))
         IN  Got(r.event, 2 + r.n)

\* get_input_chars without the DEL alternative of the Backspace arm
get_input_chars_del_is_key(s) ==
    IF s = <<>> THEN Got(Exit, 0)
    ELSE LET b0 == s[1] IN
         CASE b0 = BACKSPACE -> Got(Backspace, 1)
           [] b0 = CTRL_U -> Got(Clear, 1)
           [] b0 = CTRL_D -> Got(Exit, 1)
           [] b0 = ENTER  -> Got(Enter, 1)
           [] b0 = ESCAPE -> LET r == handle_control_keys(Tail(s), as_char(b0))
                             IN  Got(r.event, 1 + r.n)
           [] OTHER       -> Got(Key(as_char(b0)), 1)

\* get_input_chars leaving a lone ESC in the stream when nothing follows it
get_input_chars_lone_escape_unread(s) ==
    IF s = <<>> THEN Got(Exit, 0)
    ELSE LET b0 == s[1] IN
         CASE b0 = BACKSPACE \/ b0 = DEL -> Got(Backspace, 1)
           [] b0 = CTRL_U -> Got(Clear, 1)
           [] b0 = CTRL_D -> Got(Exit, 1)
           [] b0 = ENTER  -> Got(Enter, 1)
           [] b0 = ESCAPE -> IF Len(s) = 1 THEN Got(Key(as_char(b0)), 0)
                             ELSE LET r == handle_control_keys(Tail(s), as_char(b0))
                                  IN  Got(r.event, 1 + r.n)
           [] OTHER       -> Got(Key(as_char(b0)), 1)

\* get_input_chars, reading from s
get_input_chars(s) ==
    IF s = <<>> THEN Got(Exit, 0)
    ELSE LET b0 == s[1] IN
         CASE b0 = BACKSPACE \/ b0 = DEL -> Got(Backspace, 1)
           [] b0 = CTRL_U -> Got(Clear, 1)
           [] b0 = CTRL_D -> Got(Exit, 1)
           [] b0 = ENTER  -> Got(Enter, 1)
           [] b0 = ESCAPE -> LET r == handle_control_keys(Tail(s), as_char(b0))
                             IN  Got(r.event, 1 + r.n)
           [] OTHER       -> Got(Key(as_char(b0)), 1)

---------------------------------------------------------------------------
(* src/input.rs: handle_input *)

\* the number of chars of s before the char boundary at byte offset idx
chars_before(s, idx) == CHOOSE k \in 0..Len(s) : byte_len(SubSeq(s, 1, k)) = idx

\* String::insert(idx, c), for idx a char boundary
string_insert(s, idx, c) ==
    LET k == chars_before(s, idx)
    IN  SubSeq(s, 1, k) \o <<c>> \o SubSeq(s, k + 1, Len(s))

\* String::remove(idx), for idx a char boundary below s.len()
string_remove(s, idx) ==
    LET k == chars_before(s, idx)
    IN  SubSeq(s, 1, k) \o SubSeq(s, k + 2, Len(s))

\* what a handle_input call leaves behind
Handled(pat, cur, sc, res, flt) ==
    [pattern |-> pat, cursor_pos |-> cur, scroll |-> sc, result |-> res, fault |-> flt]

\* the scroll step of PageUp and PageDown
PAGE_STEP == 5

\* Direction::Right without the clamp to the pattern's length
cursor_right_unclamped(cur, len) == cur + 1

\* Direction::Right: `*cursor_pos += 1`, then clamped to pattern.len()
cursor_right(cur, len) == IF cur + 1 > len THEN len ELSE cur + 1

\* Navigation::End stopping on the last char instead of after it
cursor_end_last_char(len) == SatSub(len, 1)

\* Navigation::End: `*cursor_pos = pattern.len()`
cursor_end(len) == len

\* Navigation::PageUp with a plain subtraction
page_up_unsaturated(sc) == sc - PAGE_STEP

\* Navigation::PageUp: `scroll.saturating_sub(5)`
page_up(sc) == SatSub(sc, PAGE_STEP)

\* Navigation::PageDown: `*scroll += 5`
page_down(sc) == sc + PAGE_STEP

\* Event::Clear resetting the scroll as well
clear_pattern_and_scroll(sc) == Handled(<<>>, 0, 0, None, "none")

\* Event::Clear: `pattern.clear(); *cursor_pos = 0`
clear_pattern(sc) == Handled(<<>>, 0, sc, None, "none")

\* handle_input for the event ev, on the pattern pat, cursor cur, scroll sc
handle_input(ev, pat, cur, sc) ==
    CASE ev.kind = "Key" ->
            IF cur < byte_len(pat)
            THEN IF is_char_boundary(pat, cur)
                 THEN Handled(string_insert(pat, cur, ev.ch), cur + 1, sc, None, "none")
                 ELSE Handled(pat, cur, sc, None, "insert_boundary")
            ELSE Handled(Append(pat, ev.ch), cur + 1, sc, None, "none")
      [] ev.kind = "Direction" /\ ev.dir = "Left" ->
            Handled(pat, SatSub(cur, 1), sc, None, "none")
      [] ev.kind = "Direction" /\ ev.dir = "Right" ->
            Handled(pat, cursor_right(cur, byte_len(pat)), sc, None, "none")
      [] ev.kind = "Navigation" /\ ev.nav = "PageUp" ->
            Handled(pat, cur, page_up(sc), None, "none")
      [] ev.kind = "Navigation" /\ ev.nav = "PageDown" ->
            Handled(pat, cur, page_down(sc), None, "none")
      [] ev.kind = "Navigation" /\ ev.nav = "Home" ->
            Handled(pat, 0, sc, None, "none")
      [] ev.kind = "Navigation" /\ ev.nav = "End" ->
            Handled(pat, cursor_end(byte_len(pat)), sc, None, "none")
      [] ev.kind = "Backspace" ->
            LET one_before == SatSub(cur, 1)
            IN  IF one_before < byte_len(pat)
                THEN IF is_char_boundary(pat, one_before)
                     THEN Handled(string_remove(pat, one_before), SatSub(cur, 1),
                                  sc, None, "none")
                     ELSE Handled(pat, cur, sc, None, "remove_boundary")
                ELSE Handled(pat, SatSub(cur, 1), sc, None, "none")
      [] ev.kind = "Clear" -> clear_pattern(sc)
      [] ev.kind = "Enter" -> Handled(pat, cur, sc, Some(pat), "none")
      [] ev.kind = "Exit"  -> Handled(pat, cur, sc, Some(<<>>), "none")

---------------------------------------------------------------------------
(* The matcher and flatten_tree applied to every tree and every flags *)

\* values of the variables an operation does not use
NoFrame == [rows |-> <<>>, input_at |-> <<0, 0>>, input |-> <<>>, cursor |-> <<0, 0>>]
NoEvent == [kind |-> "None"]

EditIdle ==
    /\ pattern = <<>>
    /\ pattern_is_valid = TRUE
    /\ cursor_pos = 0
    /\ scroll = 0

RenderIdle ==
    /\ screen_size = <<0, 0>>
    /\ frame = NoFrame
    /\ again = FALSE

InputIdle ==
    /\ stdin = <<>>
    /\ read = <<>>
    /\ event = NoEvent
    /\ result = None

NoTerminal == [raw_mode |-> FALSE, alternate_screen |-> FALSE,
               raw_released |-> 0, alternate_released |-> 0]
NoFs == [n |-> 0]

EnvIdle ==
    /\ terminal = NoTerminal
    /\ fs = NoFs
    /\ running = FALSE

SeqsUpTo(S, n) == UNION { [1..k -> S] : k \in 0..n }

InitTree ==
    /\ tree \in Trees
    /\ matched \in [1..tree.n -> BOOLEAN]
    /\ re = NoRegex
    /\ ret = FALSE
    /\ style = "Full"
    /\ lines = <<>>
    /\ op = "init"
    /\ status = "running"
    /\ fault = "none"
    /\ EditIdle /\ RenderIdle /\ InputIdle /\ EnvIdle

Mark(r) ==
    /\ status = "running"
    /\ matched' = mark_matched_nodes(Root, r, matched)
    /\ tree' = tree_after_mark(tree, matched')
    /\ ret' = matched'[Root]
    /\ re' = r
    /\ lines' = <<>>
    /\ op' = "mark"
    /\ again' = FALSE
    /\ UNCHANGED <<envVars, style, editVars, screen_size, frame, status, fault, inputVars>>

Flatten(st) ==
    /\ lines' = flatten_tree(Root, <<>>, TRUE, st)
    /\ style' = st
    /\ op' = "flatten"
    /\ UNCHANGED <<envVars, tree, matched, re, ret, editVars, renderVars, status, fault, inputVars>>

NextTree ==
    \/ \E r \in Regexes : Mark(r)
    \/ \E st \in Styles : Flatten(st)

SpecTree == InitTree /\ [][NextTree]_vars

---------------------------------------------------------------------------
(* render applied to marked trees, for every scroll and terminal size *)

ExampleTree ==
    MakeTree(4, <<0, 1, 2, 1>>, <<NoName, NameA, NameXtxt, NameBtxt>>)

\* a root given as "." with nothing in it
EmptyDirTree == MakeTree(1, <<0>>, <<NoName>>)

RenderTrees == {ExampleTree, EmptyDirTree}

\* pattern text, the regex the frame is drawn with, and whether the text
\* compiled: "", "a", "x(" (drawn with the last good regex "x"), U+00E9
RenderInputs ==
    { [pattern |-> <<>>,        re |-> RegexEmpty, valid |-> TRUE],
      [pattern |-> <<97>>,      re |-> RegexA,     valid |-> TRUE],
      [pattern |-> <<120, 40>>, re |-> RegexX,     valid |-> FALSE],
      [pattern |-> <<233>>,     re |-> <<233>>,    valid |-> TRUE] }

\* terminal sizes: the default 80x24, a small one, one of fewer than 3 rows
Sizes == {<<80, 24>>, <<10, 5>>, <<10, 2>>}

\* the first thing that goes wrong in a render call, in program order
render_fault(size, ls, ds, pat, valid, cur) ==
    IF size[2] < 3 THEN "height_underflow"
    ELSE IF row_count_underflows(ls, ds) THEN "row_underflow"
    ELSE IF render_input_panics(pat, valid, size) THEN "slice_boundary"
    ELSE IF cur > 65535 THEN "cursor_too_large"
    ELSE IF cur + 10 > 65535 THEN "cursor_overflow"
    ELSE "none"

\* how the call ends: an arithmetic overflow panics when overflow checks are
\* compiled in and wraps otherwise; a wrapped height makes render_tree pad
\* without end; a wrapped row count or cursor column lets the call finish
render_status(f, checked) ==
    CASE f = "none"             -> "running"
      [] f = "height_underflow" -> IF checked THEN "panicked" ELSE "exhausted"
      [] f = "row_underflow"    -> IF checked THEN "panicked" ELSE "running"
      [] f = "cursor_overflow"  -> IF checked THEN "panicked" ELSE "running"
      [] OTHER                  -> "panicked"

\* one call of render; checked: the build has overflow checks
Render(size, checked) ==
    /\ status = "running"
    /\ lines' = flatten_tree(Root, <<>>, TRUE, style)
    /\ scroll' = clamp_scroll(scroll, Len(lines'))
    /\ fault' = render_fault(size, lines', draw_scroll(scroll, scroll'),
                             pattern, pattern_is_valid, cursor_pos)
    /\ status' = IF fault' = "row_underflow" /\ ~checked
                      /\ render_fault(size, lines', 0, pattern, pattern_is_valid,
                                      cursor_pos) \in {"slice_boundary", "cursor_too_large"}
                 THEN "panicked"
                 ELSE render_status(fault', checked)
    /\ frame' =
         IF status' = "running"
         THEN [rows     |-> render_tree(lines', size[1], size[2] - 3,
                                        draw_scroll(scroll, scroll'), re,
                                        fault' = "row_underflow"),
               input_at |-> <<1, SatSub(size[2], 2)>>,
               input    |-> render_input(pattern, pattern_is_valid, size),
               cursor   |-> <<(cursor_pos + 10) % 65536, SatSub(size[2], 1)>>]
         ELSE frame
    /\ screen_size' = size
    /\ again' = (op = "render" /\ screen_size = size)
    /\ op' = "render"
    /\ UNCHANGED <<envVars, tree, matched, re, ret, style, pattern, pattern_is_valid,
                   cursor_pos, inputVars>>

InitRender ==
    /\ tree \in RenderTrees
    /\ matched = [i \in 1..tree.n |-> FALSE]
    /\ \E in \in RenderInputs :
          /\ pattern = in.pattern
          /\ re = in.re
          /\ pattern_is_valid = in.valid
    /\ cursor_pos \in { byte_len(SubSeq(pattern, 1, k)) : k \in 0..Len(pattern) }
    /\ scroll \in 0..MaxScroll
    /\ style \in Styles
    /\ ret = FALSE
    /\ lines = <<>>
    /\ op = "init"
    /\ status = "running"
    /\ fault = "none"
    /\ RenderIdle /\ InputIdle /\ EnvIdle

NextRender ==
    \/ Mark(re)
    \/ \E size \in Sizes, checked \in BOOLEAN : Render(size, checked)

SpecRender == InitRender /\ [][NextRender]_vars

---------------------------------------------------------------------------
(* The decoder applied to byte streams *)

\* the bytes the decoder tells apart, a letter and a byte above 0x7F
DecodeBytes ==
    {BACKSPACE, DEL, CTRL_U, CTRL_D, ENTER, ESCAPE, LBRACKET, KEY_C, KEY_D,
     KEY_5, KEY_6, KEY_1, KEY_4, TILDE, 57, 97, 233}

\* every start of up to 4 bytes (the most one call reads), followed by up
\* to MaxTail more bytes
Streams ==
    { h \o t : h \in SeqsUpTo(DecodeBytes, 4), t \in SeqsUpTo({97}, MaxTail) }

InitDecode ==
    /\ stdin \in Streams
    /\ read = <<>>
    /\ event = NoEvent
    /\ result = None
    /\ op = "init"
    /\ status = "running"
    /\ fault = "none"
    /\ tree = EmptyDirTree
    /\ matched = [i \in 1..tree.n |-> FALSE]
    /\ re = NoRegex
    /\ ret = FALSE
    /\ style = "Full"
    /\ lines = <<>>
    /\ EditIdle /\ RenderIdle /\ EnvIdle

\* one call of get_input_chars on standard input
Decode ==
    /\ LET r == get_input_chars(stdin)
       IN  /\ event' = r.event
           /\ read' = SubSeq(stdin, 1, r.n)
           /\ stdin' = SubSeq(stdin, r.n + 1, Len(stdin))
    /\ op' = "decode"
    /\ UNCHANGED <<envVars, treeVars, editVars, renderVars, status, fault, result>>

NextDecode == Decode

SpecDecode == InitDecode /\ [][NextDecode]_vars

\* the caller keeps calling the decoder: a call that would change the state
\* is eventually made
SpecDecodeLive == SpecDecode /\ WF_vars(Decode)

---------------------------------------------------------------------------
(* The controller loop: compile, mark (or keep the last marks), render,    *)
(* read one event and apply it, until handle_input returns a result        *)

\* root "." holding a/{a/{x.txt}, b.txt, x.txt}, b.txt and x.txt
LoopTree ==
    MakeTree(8, <<0, 1, 2, 3, 2, 2, 1, 1>>,
             <<NoName, NameA, NameA, NameXtxt, NameBtxt, NameXtxt,
               NameBtxt, NameXtxt>>)

\* Regex::new on the pattern text, for texts over the chars the loop types:
\* '(' opens a group and '[' a class that nothing closes, every other char
\* is a literal
compile(pat) ==
    [valid |-> \A i \in 1..Len(pat) : pat[i] \notin {40, 91},
     re    |-> pat]

\* what the terminal delivers for one key: 'a', '(', U+00E9 typed as the
\* byte 0xE9, Backspace, Ctrl+U, PageUp, PageDown, Home, End, Left, Right,
\* Enter, Ctrl+D, and the end of the stream
LoopKeys ==
    { <<97>>, <<40>>, <<233>>, <<DEL>>, <<CTRL_U>>,
      <<ESCAPE, LBRACKET, KEY_5, TILDE>>, <<ESCAPE, LBRACKET, KEY_6, TILDE>>,
      <<ESCAPE, LBRACKET, KEY_1, TILDE>>, <<ESCAPE, LBRACKET, KEY_4, TILDE>>,
      <<ESCAPE, LBRACKET, KEY_D>>, <<ESCAPE, LBRACKET, KEY_C>>,
      <<ENTER>>, <<CTRL_D>>, <<>> }

LoopSizes == {<<20, 6>>, <<10, 5>>}

InitLoop ==
    /\ tree = LoopTree
    /\ matched = [i \in 1..tree.n |-> FALSE]
    /\ re = NoRegex
    /\ ret = FALSE
    /\ style \in Styles
    /\ lines = <<>>
    /\ op = "init"
    /\ status = "running"
    /\ fault = "none"
    /\ EditIdle /\ RenderIdle /\ InputIdle /\ EnvIdle

\* steps 1 and 2 of an iteration: compile the pattern and run the matcher,
\* or keep the marks of the last pattern that compiled
LoopMark ==
    /\ op \in {"init", "input"}
    /\ status = "running"
    /\ LET c == compile(pattern)
       IN  IF c.valid
           THEN /\ matched' = mark_matched_nodes(Root, c.re, matched)
                /\ tree' = tree_after_mark(tree, matched')
                /\ ret' = matched'[Root]
                /\ re' = c.re
                /\ pattern_is_valid' = TRUE
           ELSE /\ pattern_is_valid' = FALSE
                /\ UNCHANGED <<tree, matched, ret, re>>
    /\ op' = "mark"
    /\ again' = FALSE
    /\ UNCHANGED <<envVars, style, lines, pattern, cursor_pos, scroll, screen_size,
                   frame, status, fault, inputVars>>

\* step 3: render
LoopRender ==
    /\ op = "mark"
    /\ \E size \in LoopSizes, checked \in BOOLEAN : Render(size, checked)

\* steps 4 and 5: handle_input reads one event from the bytes key that the
\* terminal delivers and applies it
LoopInput(key) ==
    /\ op = "render"
    /\ status = "running"
    /\ LET r == get_input_chars(key)
           h == handle_input(r.event, pattern, cursor_pos, scroll)
       IN  /\ r.n = Len(key)
           /\ r.event.kind = "Key" => Len(pattern) < MaxPattern
           /\ event' = r.event
           /\ read' = key
           /\ pattern' = h.pattern
           /\ cursor_pos' = h.cursor_pos
           /\ scroll' = h.scroll
           /\ result' = h.result
           /\ fault' = h.fault
           /\ status' = IF h.fault # "none" THEN "panicked"
                        ELSE IF h.result # None THEN "exited"
                        ELSE "running"
    /\ op' = "input"
    /\ again' = FALSE
    /\ UNCHANGED <<envVars, treeVars, pattern_is_valid, screen_size, frame, stdin>>

NextLoop ==
    \/ LoopMark
    \/ LoopRender
    \/ \E key \in LoopKeys : LoopInput(key)

SpecLoop == InitLoop /\ [][NextLoop]_vars

---------------------------------------------------------------------------
(* The controller loop reading a finite standard input *)

\* the longest standard input, in bytes
MaxStream == 2

\* 'a', '(', 0xE9, ESC, '[', '5', Enter
StreamBytes == {97, 40, 233, ESCAPE, LBRACKET, KEY_5, ENTER}

FiniteStreams == SeqsUpTo(StreamBytes, MaxStream)

InitStream ==
    /\ tree = LoopTree
    /\ matched = [i \in 1..tree.n |-> FALSE]
    /\ re = NoRegex
    /\ ret = FALSE
    /\ style = "Full"
    /\ lines = <<>>
    /\ op = "init"
    /\ status = "running"
    /\ fault = "none"
    /\ stdin \in FiniteStreams
    /\ read = <<>>
    /\ event = NoEvent
    /\ result = None
    /\ EditIdle /\ RenderIdle /\ EnvIdle

\* steps 4 and 5 of an iteration: handle_input has get_input_chars read one
\* event from standard input, a failed read being the end of the stream, and
\* applies it
StreamInput ==
    /\ op = "render"
    /\ status = "running"
    /\ LET r == get_input_chars(stdin)
           h == handle_input(r.event, pattern, cursor_pos, scroll)
       IN  /\ event' = r.event
           /\ read' = SubSeq(stdin, 1, r.n)
           /\ stdin' = SubSeq(stdin, r.n + 1, Len(stdin))
           /\ pattern' = h.pattern
           /\ cursor_pos' = h.cursor_pos
           /\ scroll' = h.scroll
           /\ result' = h.result
           /\ fault' = h.fault
           /\ status' = IF h.fault # "none" THEN "panicked"
                        ELSE IF h.result # None THEN "exited"
                        ELSE "running"
    /\ op' = "input"
    /\ again' = FALSE
    /\ UNCHANGED <<envVars, treeVars, pattern_is_valid, screen_size, frame>>

NextStream ==
    \/ LoopMark
    \/ LoopRender
    \/ StreamInput

SpecStream == InitStream /\ [][NextStream]_vars

\* the loop keeps running: the step it is at is eventually taken
SpecStreamLive == SpecStream /\ WF_vars(NextStream)

---------------------------------------------------------------------------
(* handle_input alone: one event after another applied to the edit state   *)
(* from the initial state                                                   *)

\* the keys of the loop and Ctrl+H
EditKeys == LoopKeys \cup {<<BACKSPACE>>}

InitEdit ==
    /\ tree = EmptyDirTree
    /\ matched = [i \in 1..tree.n |-> FALSE]
    /\ re = NoRegex
    /\ ret = FALSE
    /\ style = "Full"
    /\ lines = <<>>
    /\ op = "init"
    /\ status = "running"
    /\ fault = "none"
    /\ EditIdle /\ RenderIdle /\ InputIdle /\ EnvIdle

\* one call of handle_input: it reads one event from the bytes key that the
\* terminal delivers and applies it
HandleInput(key) ==
    /\ status = "running"
    /\ LET r == get_input_chars(key)
           h == handle_input(r.event, pattern, cursor_pos, scroll)
       IN  /\ r.n = Len(key)
           /\ r.event.kind = "Key" => Len(pattern) < MaxPattern
           /\ r.event = Navigation("PageDown") => scroll < MaxPages * PAGE_STEP
           /\ event' = r.event
           /\ read' = key
           /\ pattern' = h.pattern
           /\ cursor_pos' = h.cursor_pos
           /\ scroll' = h.scroll
           /\ result' = h.result
           /\ fault' = h.fault
           /\ status' = IF h.fault # "none" THEN "panicked"
                        ELSE IF h.result # None THEN "exited"
                        ELSE "running"
    /\ op' = "input"
    /\ UNCHANGED <<envVars, treeVars, pattern_is_valid, renderVars, stdin>>

NextEdit == \E key \in EditKeys : HandleInput(key)

SpecEdit == InitEdit /\ [][NextEdit]_vars




---------------------------------------------------------------------------
(* src/main.rs: the session of `render`, from term_setup to term_teardown.  *)
(* Each call that returns a Result and is unwrapped either succeeds or      *)
(* fails, as the terminal and the file system decide; a failure panics.     *)

\* term_setup: enable_raw_mode, then EnterAlternateScreen, then
\* Terminal::new and clear, each unwrapped; outcome names the first call
\* that fails, "ok" if none does
term_setup(t, outcome) ==
    CASE outcome = "raw_failed"    -> t
      [] outcome = "screen_failed" -> [t EXCEPT !.raw_mode = TRUE]
      [] OTHER -> [t EXCEPT !.raw_mode = TRUE, !.alternate_screen = TRUE]

\* term_teardown: disable_raw_mode, then LeaveAlternateScreen, then
\* show_cursor, each unwrapped
term_teardown(t, outcome) ==
    CASE outcome = "raw_failed" -> t
      [] outcome = "screen_failed" ->
            [t EXCEPT !.raw_mode = FALSE, !.raw_released = @ + 1]
      [] OTHER ->
            [t EXCEPT !.raw_mode = FALSE, !.raw_released = @ + 1,
                      !.alternate_screen = FALSE, !.alternate_released = @ + 1]

SetupOutcomes == {"ok", "raw_failed", "screen_failed", "terminal_failed"}
TeardownOutcomes == {"ok", "raw_failed", "screen_failed", "cursor_failed"}

\* what one read_dir_incremental call of a tick does: returns a path to
\* resume from, returns None, or panics on one of its unwraps (an entry that
\* cannot be read, a name that is not UTF-8)
ScanOutcomes == {"more", "done", "panic"}

\* the chars typed into the search box
TermChars == {97, 98, 233}

InitTerm ==
    /\ tree = EmptyDirTree
    /\ matched = [i \in 1..tree.n |-> FALSE]
    /\ re = NoRegex
    /\ ret = FALSE
    /\ style = "Full"
    /\ lines = <<>>
    /\ op = "init"
    /\ status = "running"
    /\ fault = "none"
    /\ EditIdle /\ RenderIdle /\ InputIdle /\ EnvIdle

termFrame == <<treeVars, pattern_is_valid, cursor_pos, scroll, renderVars,
               inputVars, fs>>

\* render, up to its first draw: term_setup()
TermSetup(outcome) ==
    /\ op = "init"
    /\ terminal' = term_setup(terminal, outcome)
    /\ status' = IF outcome = "ok" THEN "running" ELSE "panicked"
    /\ fault' = IF outcome = "ok" THEN "none" ELSE "setup_unwrap"
    /\ running' = (outcome = "ok")
    /\ op' = "term_setup"
    /\ UNCHANGED <<termFrame, pattern>>

\* terminal.draw(..).unwrap(): the first draw of render
FirstDraw(drawn) ==
    /\ op = "term_setup"
    /\ status = "running"
    /\ status' = IF drawn THEN "running" ELSE "panicked"
    /\ fault' = IF drawn THEN "none" ELSE "draw_unwrap"
    /\ op' = "draw"
    /\ UNCHANGED <<termFrame, pattern, terminal, running>>

InSession == op \in {"draw", "tick", "key"} /\ status = "running"

\* the tick arm of the select: while running, one read_dir_incremental call
\* and a draw; running is cleared when the call returns None
Tick(scan, drawn) ==
    /\ InSession
    /\ IF running
       THEN /\ status' = IF scan = "panic" \/ ~drawn THEN "panicked" ELSE "running"
            /\ fault' = IF scan = "panic" THEN "scan_unwrap"
                        ELSE IF ~drawn THEN "draw_unwrap" ELSE "none"
            /\ running' = IF status' = "running" THEN scan = "more" ELSE running
       ELSE UNCHANGED <<status, fault, running>>
    /\ op' = "tick"
    /\ UNCHANGED <<termFrame, pattern, terminal>>

\* KeyCode::Char(c): search_term.push(c) and refresh, which draws
KeyChar(c, drawn) ==
    /\ InSession
    /\ Len(pattern) < MaxPattern
    /\ pattern' = Append(pattern, c)
    /\ status' = IF drawn THEN "running" ELSE "panicked"
    /\ fault' = IF drawn THEN "none" ELSE "draw_unwrap"
    /\ op' = "key"
    /\ UNCHANGED <<termFrame, terminal, running>>

\* KeyCode::Backspace: search_term.pop() and refresh
KeyBackspace(drawn) ==
    /\ InSession
    /\ pattern' = SubSeq(pattern, 1, Len(pattern) - 1)
    /\ status' = IF drawn THEN "running" ELSE "panicked"
    /\ fault' = IF drawn THEN "none" ELSE "draw_unwrap"
    /\ op' = "key"
    /\ UNCHANGED <<termFrame, terminal, running>>

\* KeyCode::Esc: break, then term_teardown(&mut terminal)
KeyEsc(outcome) ==
    /\ InSession
    /\ terminal' = term_teardown(terminal, outcome)
    /\ status' = IF outcome = "ok" THEN "exited" ELSE "panicked"
    /\ fault' = IF outcome = "ok" THEN "none" ELSE "teardown_unwrap"
    /\ op' = "term_teardown"
    /\ UNCHANGED <<termFrame, pattern, running>>

NextTerm ==
    \/ \E outcome \in SetupOutcomes : TermSetup(outcome)
    \/ \E drawn \in BOOLEAN : FirstDraw(drawn)
    \/ \E scan \in ScanOutcomes, drawn \in BOOLEAN : Tick(scan, drawn)
    \/ \E c \in TermChars, drawn \in BOOLEAN : KeyChar(c, drawn)
    \/ \E drawn \in BOOLEAN : KeyBackspace(drawn)
    \/ \E outcome \in TeardownOutcomes : KeyEsc(outcome)

SpecTerm == InitTerm /\ [][NextTerm]_vars

---------------------------------------------------------------------------
(* src/generate.rs: build_directory_tree over a directory snapshot *)

\* entries of the largest snapshot, and the call depth the stack allows
MaxEntries == 3
MaxDepth   == 5

\* fs = [n, parent, kind, target, trouble]: entry 1 is the path handed to
\* the build, parent[e] the directory holding e, kind[e] what lstat says of
\* e, target[e] the directory a symlink resolves to (0: a file or nothing),
\* trouble[e] which system call fails on e
\*   "list_fails"  fs::read_dir(e) is Err
\*   "entry_err"   the ReadDir iterator yields Err instead of e
\*   "type_err"    entry.file_type() is Err
\*   "not_utf8"    entry.path().to_str() is None
EntryChoices(k) ==
    {[kind |-> "dir", target |-> 0, trouble |-> t] :
        t \in {"none", "list_fails", "entry_err", "type_err", "not_utf8"}}
    \cup {[kind |-> "file", target |-> 0, trouble |-> t] :
        t \in {"none", "entry_err", "type_err"}}
    \cup {[kind |-> "symlink", target |-> d, trouble |-> "none"] : d \in 0..k}

RootChoices ==
    {[kind |-> "dir", target |-> 0, trouble |-> t] : t \in {"none", "list_fails"}}
    \cup {[kind |-> "file", target |-> 0, trouble |-> "none"]}

FsOf(p, c) ==
    [n |-> Len(c), parent |-> p,
     kind    |-> [e \in 1..Len(c) |-> c[e].kind],
     target  |-> [e \in 1..Len(c) |-> c[e].target],
     trouble |-> [e \in 1..Len(c) |-> c[e].trouble]]

FsSnapshots ==
    UNION {
      {FsOf(p, c) :
         p \in {q \in [1..k -> 0..(k - 1)] :
                   q[1] = 0 /\ \A e \in 2..k : q[e] \in 1..(e - 1)},
         c \in {d \in [1..k -> EntryChoices(k) \cup RootChoices] :
                   /\ d[1] \in RootChoices
                   /\ \A e \in 2..k : d[e] \in EntryChoices(k)
                   /\ \A e \in 2..k :
                         d[e].target # 0 => d[d[e].target].kind = "dir"}}
      : k \in 1..MaxEntries}

WellFormedFs(f) == \A e \in 2..f.n : f.kind[f.parent[e]] = "dir"

\* Path::is_symlink, and Path::is_dir, which follows symlinks
path_is_symlink(e) == fs.kind[e] = "symlink"
resolve(e) == IF fs.kind[e] = "symlink" THEN fs.target[e] ELSE e
path_is_dir(e) == resolve(e) # 0 /\ fs.kind[resolve(e)] = "dir"

\* entry.file_type().is_dir() follows symlinks, a walk that lists through links
is_directory_entry_following(e) == path_is_dir(e)

\* entry.file_type().is_dir(): the type of the entry itself, links not followed
is_directory_entry(e) == fs.kind[e] = "dir"

determine_color(e) ==
    IF path_is_symlink(e) THEN "YELLOW"
    ELSE IF path_is_dir(e) THEN "CYAN"
    ELSE "MAGENTA"

\* fs::read_dir(d).filter_map(Result::ok): the entries of d, in the order the
\* directory yields them, those the iterator failed on left out
read_dir_entries(d) ==
    SelectSeq([e \in 1..fs.n |-> e],
              LAMBDA e : fs.parent[e] = d /\ fs.trouble[e] # "entry_err")

NoNode == [entry |-> 0, children |-> <<>>, color |-> "", error |-> "none"]
DirectoryNodeOf(e, ch, col, err) ==
    [entry |-> e, children |-> ch, color |-> col, error |-> err]
Built(node) == [fault |-> "none", node |-> node]
Aborted(why) == [fault |-> why, node |-> NoNode]

RECURSIVE build_directory_tree(_, _)
RECURSIVE build_children(_, _, _)

\* the closure mapped over the entries, collected in order; a panic in one
\* entry unwinds the whole walk
build_children(es, i, depth) ==
    IF i > Len(es) THEN [fault |-> "none", nodes |-> <<>>]
    ELSE LET c == es[i]
             first ==
                 IF fs.trouble[c] = "type_err"
                 THEN Aborted("expect_file_type")
                 ELSE IF is_directory_entry(c)
                 THEN IF fs.trouble[c] = "not_utf8"
                      THEN Aborted("expect_to_str")
                      ELSE build_directory_tree(c, depth + 1)
                 ELSE Built(DirectoryNodeOf(c, <<>>, determine_color(c), "none"))
         IN IF first.fault # "none"
            THEN [fault |-> first.fault, nodes |-> <<>>]
            ELSE LET rest == build_children(es, i + 1, depth)
                 IN IF rest.fault # "none" THEN rest
                    ELSE [fault |-> "none",
                          nodes |-> <<first.node>> \o rest.nodes]

build_directory_tree(e, depth) ==
    IF depth > MaxDepth THEN Aborted("stack_overflow")
    ELSE IF ~path_is_dir(e)
    THEN Built(DirectoryNodeOf(e, <<>>, determine_color(e), "not_a_directory"))
    ELSE IF fs.trouble[resolve(e)] = "list_fails"
    THEN Built(DirectoryNodeOf(e, <<>>, "RED", "os_error"))
    ELSE LET kids == build_children(read_dir_entries(resolve(e)), 1, depth)
         IN IF kids.fault # "none" THEN Aborted(kids.fault)
            ELSE Built(DirectoryNodeOf(e, kids.nodes, determine_color(e), "none"))

InitBuild ==
    /\ fs \in FsSnapshots
    /\ WellFormedFs(fs)
    /\ tree = NoNode
    /\ matched = <<>>
    /\ re = NoRegex
    /\ ret = FALSE
    /\ style = "Full"
    /\ lines = <<>>
    /\ op = "init"
    /\ status = "running"
    /\ fault = "none"
    /\ terminal = NoTerminal
    /\ running = FALSE
    /\ EditIdle /\ RenderIdle /\ InputIdle

\* build_directory_tree(dir): the tree it returns, or the panic that ends it
Build ==
    /\ op = "init"
    /\ LET r == build_directory_tree(Root, 1)
       IN /\ tree' = r.node
          /\ fault' = r.fault
          /\ status' = IF r.fault = "none" THEN "running" ELSE "panicked"
    /\ op' = "build"
    /\ UNCHANGED <<matched, re, ret, style, lines, editVars, renderVars,
                   inputVars, envVars>>

NextBuild == Build

SpecBuild == InitBuild /\ [][NextBuild]_vars

---------------------------------------------------------------------------
(* src/main.rs: read_dir_recursive, and read_dir_incremental called once a *)
(* tick until it returns None                                              *)

\* the names of a directory are 0..MaxName, compared as their numbers; 0 is
\* a name that starts with "."
MaxName == 3

\* the `increment` render passes
SCAN_INCREMENT == 4

HiddenName == 0

\* a path is the sequence of names below the directory shown
TopChoices ==
    {[kind |-> "absent", sub |-> {}], [kind |-> "file", sub |-> {}]}
    \cup {[kind |-> "dir", sub |-> S] : S \in SUBSET (1..MaxName)}

\* the directory shown: at most MaxName entries and a hidden file, the
\* directories among them holding files
DirSnapshot(top, hidden) ==
    [entries |-> {<<n>> : n \in {m \in 1..MaxName : top[m].kind # "absent"}}
                 \cup UNION {{<<n, c>> : c \in top[n].sub} : n \in 1..MaxName}
                 \cup (IF hidden THEN {<<HiddenName>>} ELSE {}),
     dirs    |-> {<<n>> : n \in {m \in 1..MaxName : top[m].kind = "dir"}}
                 \cup {<<>>}]

DirSnapshots ==
    {DirSnapshot(top, hidden) : top \in [1..MaxName -> TopChoices],
                                hidden \in BOOLEAN}

\* fs::read_dir(dirname), collected and sorted by path: the names in dirname
sorted_entries(dirname) ==
    SelectSeq([i \in 1..(MaxName + 1) |-> i - 1],
              LAMBDA n : Append(dirname, n) \in fs.entries)

\* the two `continue` on names that start with "." or "target"
skipped_name(n) == n = HiddenName

TreeNodeOf(val, node_type, ch) ==
    [val |-> val, node_type |-> node_type, children |-> ch]

\* the node of the directory shown before anything is read
EmptyRoot == TreeNodeOf(-1, "Dir", <<>>)

RECURSIVE read_dir_recursive(_, _)
RECURSIVE RecursiveEntries(_, _, _)

RecursiveEntries(dirname, es, i) ==
    IF i > Len(es) THEN <<>>
    ELSE LET path == Append(dirname, es[i])
         IN  (IF skipped_name(es[i]) THEN <<>>
              ELSE IF path \in fs.dirs THEN <<read_dir_recursive(path, es[i])>>
              ELSE <<TreeNodeOf(es[i], "File", <<>>)>>)
             \o RecursiveEntries(dirname, es, i + 1)

\* read_dir_recursive(dirname), val the final component of dirname
read_dir_recursive(dirname, val) ==
    TreeNodeOf(val, "Dir", RecursiveEntries(dirname, sorted_entries(dirname), 1))

\* the test on begin_from that compares every component up to the first
\* that differs
before_begin_from_whole_path(bf, path) ==
    /\ bf # None
    /\ \E k \in 1..Len(path) :
          /\ k <= Len(bf[1])
          /\ SubSeq(bf[1], 1, k - 1) = SubSeq(path, 1, k - 1)
          /\ bf[1][k] > path[k]

\* the test on begin_from: the components of the two paths zipped, the last
\* pair compared
before_begin_from(bf, path) ==
    /\ bf # None
    /\ LET k == IF Len(bf[1]) < Len(path) THEN Len(bf[1]) ELSE Len(path)
       IN  bf[1][k] > path[k]

Scanned(root, counter, left_off_from) ==
    [root |-> root, counter |-> counter, ret |-> left_off_from]

WithLastChild(root, child) ==
    [root EXCEPT !.children = [@ EXCEPT ![Len(@)] = child]]
WithNewChild(root, child) ==
    [root EXCEPT !.children = Append(@, child)]

RECURSIVE read_dir_incremental(_, _, _, _, _)
RECURSIVE IncrementalEntries(_, _, _, _, _, _)

\* the loop over the sorted entries, from entry i on
IncrementalEntries(root, dirname, es, i, bf, counter) ==
    IF i > Len(es) THEN Scanned(root, counter, None)
    ELSE LET val  == es[i]
             path == Append(dirname, val)
         IN  IF skipped_name(val) \/ before_begin_from(bf, path)
             THEN IncrementalEntries(root, dirname, es, i + 1, bf, counter)
             ELSE IF counter > SCAN_INCREMENT
             THEN Scanned(root, counter, Some(path))
             ELSE IF path \in fs.dirs
             THEN LET n       == Len(root.children)
                      resumed == n > 0 /\ root.children[n].val = val
                      child   == IF resumed THEN root.children[n]
                                 ELSE TreeNodeOf(val, "Dir", <<>>)
                      r       == read_dir_incremental(
                                     child, path, val, bf,
                                     IF n = 0 THEN counter + 1 ELSE counter)
                      root1   == IF resumed THEN WithLastChild(root, r.root)
                                 ELSE WithNewChild(root, r.root)
                  IN  IF r.ret # None THEN Scanned(root1, r.counter, r.ret)
                      ELSE IncrementalEntries(root1, dirname, es, i + 1, bf,
                                              r.counter)
             ELSE IncrementalEntries(
                      WithNewChild(root, TreeNodeOf(val, "File", <<>>)),
                      dirname, es, i + 1, bf, counter + 1)

\* read_dir_incremental(root, dirname, begin_from, counter, increment, ..),
\* val the final component of dirname: the root and the counter it leaves,
\* and the path it returns
read_dir_incremental(root, dirname, val, bf, counter) ==
    IncrementalEntries([root EXCEPT !.val = val], dirname,
                       sorted_entries(dirname), 1, bf, counter)

InitScan ==
    /\ fs \in DirSnapshots
    /\ tree = EmptyRoot
    /\ ret = None
    /\ running = TRUE
    /\ terminal = NoTerminal
    /\ matched = <<>>
    /\ re = NoRegex
    /\ style = "Full"
    /\ lines = <<>>
    /\ op = "init"
    /\ status = "running"
    /\ fault = "none"
    /\ EditIdle /\ RenderIdle /\ InputIdle

\* one pass of the tick arm while `running`: a call that resumes from the
\* path the last one returned, with a counter of 0
ScanTick ==
    /\ running
    /\ LET r == read_dir_incremental(tree, <<>>, -1, ret, 0)
       IN  /\ tree' = r.root
           /\ ret' = r.ret
           /\ running' = (r.ret # None)
    /\ op' = "scan"
    /\ UNCHANGED <<matched, re, style, lines, editVars, renderVars, inputVars,
                   status, fault, terminal, fs>>

NextScan == ScanTick

SpecScan == InitScan /\ [][NextScan]_vars

---------------------------------------------------------------------------
(* Tree relations used to state the properties (not used by the code) *)

RECURSIVE Ancestors(_)
Ancestors(node) ==
    IF tree.parent[node] = 0 THEN {}
    ELSE {tree.parent[node]} \cup Ancestors(tree.parent[node])

Descendants(node) == { d \in Nodes : node \in Ancestors(d) }

\* the nodes on the path from the root down to node
PathTo(node) == Ancestors(node) \cup {node}

Min(S) == CHOOSE x \in S : \A y \in S : x <= y
Max(S) == CHOOSE x \in S : \A y \in S : y <= x

\* a comes before b in the depth-first pre-order with children in stored
\* order: a is an ancestor of b, or the two paths part at a common ancestor
\* whose child towards a is stored before its child towards b
PreOrderBefore(a, b) ==
    \/ a \in Ancestors(b)
    \/ /\ a # b
       /\ b \notin Ancestors(a)
       /\ Min(PathTo(a) \ PathTo(b)) < Min(PathTo(b) \ PathTo(a))

LineNodes == [i \in 1..Len(lines) |-> lines[i].node]

VisibleSiblings(node) ==
    { c \in Nodes : tree.parent[c] = tree.parent[node] /\ matched[c] }

Last(s) == s[Len(s)]

---------------------------------------------------------------------------
(* Properties of the matcher and of flatten_tree *)

\* C1: after mark_matched_nodes(root, P), whatever the flags were before, a
\* node's flag is set iff its own final path component matches P or that of
\* one of its descendants (at any depth) does; the call returns the root's flag.
C1_MarkSetsFlagIffMatchAtOrBelow ==
    op = "mark" =>
        /\ \A node \in Nodes :
              matched[node] <=>
                  \E d \in {node} \cup Descendants(node) : name_matches(d, re)
        /\ ret = matched[Root]

\* a marked tree where a node is visible only through a match two levels
\* below it, and another node is not visible
C1_Witness ==
    /\ op = "mark"
    /\ \E node \in Nodes, d \in Nodes :
          /\ d \in Descendants(node)
          /\ tree.parent[d] # node
          /\ name_matches(d, re)
          /\ \A e \in PathTo(d) \ {d} : ~name_matches(e, re)
          /\ matched[node]
    /\ \E node \in Nodes : ~matched[node]

\* the tree {a/{x.txt}, b.txt} of the end-to-end example, marked with the
\* pattern "x" and flattened
ExampleTreeFlattened ==
    /\ op = "flatten"
    /\ re = RegexX
    /\ tree.n = 4
    /\ tree.parent = <<0, 1, 2, 1>>
    /\ tree.name[2] = NameA /\ tree.name[3] = NameXtxt /\ tree.name[4] = NameBtxt

\* the emitted lines are exactly the visible nodes, once each, in pre-order
LinesAreVisibleNodesInPreOrder ==
    (op = "flatten" /\ re # NoRegex) =>
        /\ \A node \in Nodes :
              matched[node] <=> \E i \in 1..Len(lines) : LineNodes[i] = node
        /\ \A i, j \in 1..Len(lines) :
              i < j => /\ LineNodes[i] # LineNodes[j]
                       /\ PreOrderBefore(LineNodes[i], LineNodes[j])

\* C2 (as amended): after mark then flatten, the emitted lines are exactly
\* the visible nodes, each exactly once, in depth-first pre-order with
\* children in stored order; for the tree {a/{x.txt}, b.txt} and the pattern
\* "x" the lines are root, a, a/x.txt and b.txt: b.txt is not pruned, the
\* unanchored search finds "x" in its extension.
C2_LinesAreVisibleNodesInPreOrder ==
    /\ LinesAreVisibleNodesInPreOrder
    /\ ExampleTreeFlattened => LineNodes = <<1, 2, 3, 4>>

\* the example tree flattened to its four lines
C2_Witness ==
    /\ ExampleTreeFlattened
    /\ LineNodes = <<1, 2, 3, 4>>
    /\ \A i \in 1..4 : matched[i]

\* C2 as stated: the same, with b.txt producing no line in the example
C2_Original ==
    /\ LinesAreVisibleNodesInPreOrder
    /\ ExampleTreeFlattened => LineNodes = <<1, 2, 3>>

\* C3: for any assignment of the flags, flatten_tree emits no line for a node
\* that has an unmatched ancestor, even when the node's own flag is set.
C3_NoLineBelowPrunedNode ==
    op = "flatten" =>
        \A i \in 1..Len(lines) : \A a \in Ancestors(LineNodes[i]) : matched[a]

\* flags not produced by the matcher: a flagged node under an unflagged
\* ancestor, in a tree that does emit lines
C3_Witness ==
    /\ op = "flatten"
    /\ re = NoRegex
    /\ Len(lines) > 0
    /\ \E node \in Nodes :
          /\ matched[node]
          /\ \E a \in Ancestors(node) : ~matched[a]
          /\ \A i \in 1..Len(lines) : LineNodes[i] # node

\* C4: among the children of a rendered node, the last of the visible
\* children is drawn with the "last" connector and every other visible child
\* with the "not last" connector, whatever invisible siblings surround it.
C4_LastVisibleSiblingGetsLastConnector ==
    op = "flatten" =>
        \A i \in 1..Len(lines) :
            LET node == LineNodes[i]
                glyph == Last(lines[i].first_part)
            IN  node # Root =>
                    IF node = Max(VisibleSiblings(node))
                    THEN glyph = (IF style = "Full" THEN "L-" ELSE "L")
                    ELSE glyph = (IF style = "Full" THEN "T-" ELSE "T")

\* a visible child drawn as last although an invisible sibling follows it,
\* next to an earlier visible sibling drawn as not last
C4_Witness ==
    /\ op = "flatten"
    /\ \E i, j \in 1..Len(lines) :
          /\ tree.parent[LineNodes[i]] = tree.parent[LineNodes[j]]
          /\ tree.parent[LineNodes[i]] # 0
          /\ Last(lines[i].first_part) \in {"T-", "T"}
          /\ Last(lines[j].first_part) \in {"L-", "L"}
          /\ \E k \in Nodes :
                /\ k > LineNodes[j]
                /\ tree.parent[k] = tree.parent[LineNodes[j]]
                /\ ~matched[k]

---------------------------------------------------------------------------
(* Properties of render *)

\* C5: a render that repeats the one before it (same tree, pattern, style,
\* cursor_pos, validity flag and terminal size) writes the same frame again
\* and leaves scroll as the first one set it.
C5_RenderTwiceSameFrame ==
    [][ ( /\ op = "render" /\ status = "running"
          /\ op' = "render" /\ status' = "running"
          /\ screen_size' = screen_size )
        => (frame' = frame /\ scroll' = scroll) ]_vars

\* a frame with tree lines in it, drawn a second time
C5_Witness ==
    /\ op = "render"
    /\ status = "running"
    /\ again
    /\ \E i \in 1..Len(frame.rows) : frame.rows[i].kind = "line"
    /\ scroll = Len(lines) - 1

\* C6: whatever scroll was and however many lines the tree flattens to (none
\* included), render leaves scroll at a valid index (below the number of
\* lines, or 0 when there are none) and the row count of render_tree,
\* tree.len() - scroll, does not underflow.
C6_ScrollClampedBeforeDrawing ==
    op = "render" =>
        /\ scroll < Len(lines) \/ (Len(lines) = 0 /\ scroll = 0)
        /\ fault # "row_underflow"

\* a frame drawn for a tree whose root is not visible: no line, blank rows
C6_Witness ==
    /\ op = "render"
    /\ status = "running"
    /\ Len(lines) = 0
    /\ Len(frame.rows) > 0
    /\ \A i \in 1..Len(frame.rows) : frame.rows[i].kind = "blank"

---------------------------------------------------------------------------
(* Properties of the decoder *)

\* the stream as it was before the last decoder call
StreamBefore == read \o stdin

StartsWith(s, p) == Len(s) >= Len(p) /\ SubSeq(s, 1, Len(p)) = p

\* C8: on a stream starting with ESC '[' 'C' (resp. 'D') one decoder call
\* returns Direction(Right) (resp. Direction(Left)) and reads exactly those 3
\* bytes.
C8_ArrowKeysDecoded ==
    op = "decode" =>
        /\ StartsWith(StreamBefore, <<27, 91, 67>>) =>
              event = Direction("Right") /\ read = <<27, 91, 67>>
        /\ StartsWith(StreamBefore, <<27, 91, 68>>) =>
              event = Direction("Left") /\ read = <<27, 91, 68>>

\* ESC '[' 'C' decoded with a byte left for the next call
C8_Witness ==
    /\ op = "decode"
    /\ read = <<27, 91, 67>>
    /\ event = Direction("Right")
    /\ stdin # <<>>

\* C9: on a stream starting with ESC '[' s '~', s one of '5', '6', '1', '4',
\* one decoder call returns Navigation(PageUp), Navigation(PageDown),
\* Navigation(Home), Navigation(End) respectively and reads exactly 4 bytes.
C9_NavigationKeysDecoded ==
    op = "decode" =>
        \A sel \in {<<53, "PageUp">>, <<54, "PageDown">>, <<49, "Home">>, <<52, "End">>} :
            StartsWith(StreamBefore, <<27, 91, sel[1], 126>>) =>
                event = Navigation(sel[2]) /\ read = <<27, 91, sel[1], 126>>

\* ESC '[' '6' '~' decoded to PageDown with a byte left for the next call
C9_Witness ==
    /\ op = "decode"
    /\ read = <<27, 91, 54, 126>>
    /\ event = Navigation("PageDown")
    /\ stdin # <<>>

\* C10: on a stream starting with ESC '[' b2, b2 none of 'C', 'D', '5', '6',
\* '1', '4', one decoder call returns Key(b2) and reads exactly 3 bytes.
C10_OtherSelectorIsKey ==
    op = "decode" =>
        \A b2 \in DecodeBytes \ {67, 68, 53, 54, 49, 52} :
            StartsWith(StreamBefore, <<27, 91, b2>>) =>
                event = Key(b2) /\ read = <<27, 91, b2>>

\* ESC '[' '9' '~' decoded to Key('9'), the '~' left unread
C10_Witness ==
    /\ op = "decode"
    /\ read = <<27, 91, 57>>
    /\ event = Key(57)
    /\ stdin # <<>> /\ stdin[1] = 126

\* the starts of an escape sequence that the end of the stream cuts short
Truncated ==
    {<<>>, <<27>>, <<27, 91>>} \cup { <<27, 91, sel>> : sel \in {53, 54, 49, 52} }

\* C11: when the stream ends at any step of decoding one event (before b0,
\* after ESC, after ESC '[', or after ESC '[' and a navigation selector) the
\* decoder call returns Exit, never a Key event.
C11_ReadFailureIsExit ==
    (op = "decode" /\ StreamBefore \in Truncated) => event = Exit

\* C12: on a stream starting with ESC '[' s c, s one of '5', '6', '1', '4'
\* and c other than '~', one decoder call returns Key(c), not Key(s), and
\* reads exactly 4 bytes; a Navigation event is returned only by a call that
\* read 4 bytes, the last of them '~'.
C12_UnconfirmedSelectorIsKeyOfNextByte ==
    op = "decode" =>
        /\ \A sel \in {53, 54, 49, 52}, c \in DecodeBytes \ {126} :
              StartsWith(StreamBefore, <<27, 91, sel, c>>) =>
                  event = Key(c) /\ read = <<27, 91, sel, c>>
        /\ event.kind = "Navigation" => Len(read) = 4 /\ read[4] = 126

\* ESC '[' '5' 'a' decoded to Key('a') with a byte left for the next call
C12_Witness ==
    /\ op = "decode"
    /\ read = <<27, 91, 53, 97>>
    /\ event = Key(97)
    /\ stdin # <<>>

\* the event of a first byte other than ESC
FirstByteEvent(b0) ==
    CASE b0 \in {8, 127} -> Backspace
      [] b0 = 21         -> Clear
      [] b0 = 4          -> Exit
      [] b0 = 13         -> Enter
      [] OTHER           -> Key(b0)

\* C13: on a stream whose first byte b0 is not ESC one decoder call reads
\* exactly that byte and returns Backspace for 0x08 and 0x7F, Clear for 0x15,
\* Exit for 0x04, Enter for 0x0D and Key(b0) for every other byte.
C13_FirstByteDecoded ==
    (op = "decode" /\ StreamBefore # <<>> /\ StreamBefore[1] # 27) =>
        /\ read = <<StreamBefore[1]>>
        /\ event = FirstByteEvent(StreamBefore[1])

\* DEL decoded to Backspace with ESC left in the stream for the next call
C13_Witness ==
    /\ op = "decode"
    /\ read = <<127>>
    /\ event = Backspace
    /\ stdin # <<>> /\ stdin[1] = 27

\* C14: on a stream starting with ESC b1, b1 other than '[', one decoder call
\* returns Key(b1) and reads exactly 2 bytes, whatever b1 is (Ctrl+D, Enter,
\* DEL, Ctrl+U or a second ESC included).
C14_EscapeThenOtherIsKey ==
    op = "decode" =>
        \A b1 \in DecodeBytes \ {91} :
            StartsWith(StreamBefore, <<27, b1>>) =>
                event = Key(b1) /\ read = <<27, b1>>

\* ESC ESC decoded to Key(ESC), the '[' 'C' that follows left unread
C14_Witness ==
    /\ op = "decode"
    /\ read = <<27, 27>>
    /\ event = Key(27)
    /\ StartsWith(stdin, <<91, 67>>)

EventKinds ==
    {"Key", "Direction", "Navigation", "Backspace", "Clear", "Enter", "Exit"}

\* a decoder call has returned with one event, having read at most 4 bytes
\* and, when there was a byte left in the stream, at least 1
OneEventPerCall ==
    op = "decode" =>
        /\ event.kind \in EventKinds
        /\ Len(read) <= 4
        /\ StreamBefore # <<>> => Len(read) >= 1
        /\ StreamBefore = <<>> => event = Exit /\ read = <<>>

\* a call on the exhausted stream has returned Exit
ExitOnExhaustedStream ==
    op = "decode" /\ stdin = <<>> /\ read = <<>> /\ event = Exit

\* C15 (as amended): on every finite stream each decoder call returns exactly
\* one event after reading at most 4 bytes, at least 1 of them when the
\* stream still holds a byte and none when it is exhausted, where the call
\* returns Exit; repeated calls exhaust the stream and reach that Exit.
C15_DecoderTerminatesAndReachesExit ==
    []OneEventPerCall /\ <>ExitOnExhaustedStream

\* ESC '[' '5' cut short by the end of the stream: one call read the 3 bytes
\* and returned one event
C15_Witness ==
    /\ op = "decode"
    /\ read = <<27, 91, 53>>
    /\ stdin = <<>>
    /\ event.kind \in EventKinds

\* C15 as stated: every decoder call reads at least 1 and at most 4 bytes,
\* the call on the exhausted stream included
C15_Original ==
    op = "decode" => Len(read) >= 1 /\ Len(read) <= 4

---------------------------------------------------------------------------
(* Properties of handle_input.  Offsets and lengths are in bytes, as        *)
(* cursor_pos and pattern.len() are in the code; a step of SpecEdit is one  *)
(* handle_input call, the unprimed variables its state before the call.     *)

\* the bytes of pat with the bytes of ch put in at offset c
BytesWithCharAt(pat, c, ch) ==
    SubSeq(as_bytes(pat), 1, c) \o utf8(ch)
        \o SubSeq(as_bytes(pat), c + 1, byte_len(pat))

\* the bytes of pat without the w bytes from offset c on
BytesWithout(pat, c, w) ==
    SubSeq(as_bytes(pat), 1, c) \o SubSeq(as_bytes(pat), c + w + 1, byte_len(pat))

\* Backspace with the cursor after the start removes the char before it
BackspaceRemovesCharBefore ==
    (op' = "input" /\ event' = Backspace /\ cursor_pos > 0) =>
        /\ fault' = "none"
        /\ Len(pattern') = Len(pattern) - 1
        /\ \E w \in {1, 2} :
              as_bytes(pattern') = BytesWithout(pattern, cursor_pos - 1, w)
        /\ cursor_pos' = cursor_pos - 1

\* Backspace with the cursor at the start changes nothing
BackspaceAtStartIsNoOp ==
    (op' = "input" /\ event' = Backspace /\ cursor_pos = 0) =>
        pattern' = pattern /\ cursor_pos' = cursor_pos

\* C16: Backspace with cursor_pos = c > 0 removes exactly the char at
\* offset c - 1 and sets cursor_pos to c - 1; Backspace with cursor_pos = 0
\* leaves the pattern and cursor_pos as they were, a non-empty pattern
\* included.
C16_BackspaceDeletesBeforeCursor ==
    [][BackspaceRemovesCharBefore /\ BackspaceAtStartIsNoOp]_vars

\* C17: Key(ch) with cursor_pos = c on the pattern p leaves the pattern
\* p[0..c] + ch + p[c..] and cursor_pos = c + 1, for every reachable p and c.
C17_KeyInsertsAtCursor ==
    [][(op' = "input" /\ event'.kind = "Key") =>
          /\ fault' = "none"
          /\ Len(pattern') = Len(pattern) + 1
          /\ as_bytes(pattern') = BytesWithCharAt(pattern, cursor_pos, event'.ch)
          /\ cursor_pos' = cursor_pos + 1]_vars

\* C18: Direction(Left) sets cursor_pos to max(0, cursor_pos - 1),
\* Direction(Right) to min(len(pattern), cursor_pos + 1), Home to 0 and End
\* to len(pattern); none of the four changes the pattern.
C18_CursorMoves ==
    [][op' = "input" =>
          /\ event' = Direction("Left") =>
                cursor_pos' = Max({0, cursor_pos - 1}) /\ pattern' = pattern
          /\ event' = Direction("Right") =>
                /\ cursor_pos' = Min({byte_len(pattern), cursor_pos + 1})
                /\ pattern' = pattern
          /\ event' = Navigation("Home") =>
                cursor_pos' = 0 /\ pattern' = pattern
          /\ event' = Navigation("End") =>
                cursor_pos' = byte_len(pattern) /\ pattern' = pattern]_vars

\* End applied to a pattern of two chars with the cursor elsewhere before
C18_Witness ==
    /\ op = "input"
    /\ event = Navigation("End")
    /\ Len(pattern) = 2
    /\ cursor_pos = byte_len(pattern)
    /\ fault = "none"

\* C19: from the empty pattern with cursor 0 and scroll 0, after every
\* sequence of handle_input calls, 0 <= cursor_pos <= len(pattern).
C19_CursorWithinPattern ==
    cursor_pos >= 0 /\ cursor_pos <= byte_len(pattern)

\* Right applied with the cursor at the end of a non-empty pattern
C19_Witness ==
    /\ op = "input"
    /\ event = Direction("Right")
    /\ pattern # <<>>
    /\ cursor_pos = byte_len(pattern)

\* C20: Navigation(PageUp) sets scroll to max(0, scroll - 5) and
\* Navigation(PageDown) to scroll + 5; neither changes the pattern or
\* cursor_pos.
C20_PageKeysMoveScrollByStep ==
    [][op' = "input" =>
          /\ event' = Navigation("PageUp") =>
                /\ scroll' = Max({0, scroll - 5})
                /\ pattern' = pattern /\ cursor_pos' = cursor_pos
          /\ event' = Navigation("PageDown") =>
                /\ scroll' = scroll + 5
                /\ pattern' = pattern /\ cursor_pos' = cursor_pos]_vars

\* PageUp applied two steps down, with a pattern typed and the cursor in it
C20_Witness ==
    /\ op = "input"
    /\ event = Navigation("PageUp")
    /\ scroll = 5
    /\ pattern # <<>>
    /\ cursor_pos > 0

---------------------------------------------------------------------------
(* Properties of the controller loop *)

\* the number of lines the tree flattens to with its current flags
VisibleLineCount == Len(flatten_tree(Root, <<>>, TRUE, style))

ScrollInRange == scroll >= 0 /\ scroll <= SatSub(VisibleLineCount, 1)

\* C7 (as amended): in every state of the controller loop in which a frame
\* has just been rendered (the loop is about to wait for the next event),
\* scroll lies in [0, max(0, visible_line_count - 1)]; between an event and
\* the next render it may lie above that range.
C7_ScrollInRangeAfterRender ==
    op = "render" => ScrollInRange

\* a frame rendered after PageDown events carried scroll past the last
\* line: scroll was brought back to the last line
C7_Witness ==
    /\ op = "render"
    /\ status = "running"
    /\ event = Navigation("PageDown")
    /\ VisibleLineCount > 1
    /\ scroll = VisibleLineCount - 1
    /\ scroll % PAGE_STEP # 0

\* C7 as stated: scroll is in range in every reachable state, directly
\* after a PageDown event included
C7_Original ==
    status \in {"running", "exited"} => ScrollInRange

---------------------------------------------------------------------------
(* Properties of how handle_input ends the loop and of its panics *)

\* what handle_input returns for Enter on the pattern p
EnterResult(p) == handle_input(Enter, p, 0, 0).result

\* the pattern texts the editor can hold within the bounds
EditPatterns == SeqsUpTo({40, 97, 233}, MaxPattern)

\* C21: Enter ends the loop with the current pattern as the result, Exit ends
\* it with a result that Enter gives for no pattern, the empty pattern
\* included, and every other event leaves the loop running with no result.
C21_ExitDistinctFromEnter ==
    (op = "input" /\ fault = "none") =>
        /\ event = Enter =>
              result = Some(pattern) /\ status = "exited"
        /\ event = Exit =>
              /\ status = "exited"
              /\ \A p \in EditPatterns : result # EnterResult(p)
        /\ event \notin {Enter, Exit} =>
              result = None /\ status = "running"

\* C23: for every sequence of key bytes, bytes from 0x80 on included, no
\* handle_input call panics: no insert or remove is made at an offset
\* inside a char of the pattern.
C23_HandleInputNeverPanics ==
    fault \notin {"insert_boundary", "remove_boundary"} /\ status # "panicked"

---------------------------------------------------------------------------
(* Properties of the prefix of a line and of the rows of render_tree *)

\* the elements of a set of nodes, the smallest (the one nearest the root)
\* first
RECURSIVE RootFirst(_)
RootFirst(S) == IF S = {} THEN <<>> ELSE <<Min(S)>> \o RootFirst(S \ {Min(S)})

\* whether node is drawn as the last of its visible siblings; the root is
DrawnLast(node) == node = Root \/ node = Max(VisibleSiblings(node))

BlankSegment == IF style = "Full" THEN "  " ELSE " "
BarSegment   == IF style = "Full" THEN "| " ELSE "|"

\* C29: the first part of every emitted line is one segment per ancestor of
\* its node, the root's first, blank for an ancestor drawn as the last of its
\* visible siblings (the root counts as last) and a vertical bar otherwise,
\* followed by the node's own connector.
C29_PrefixIsAncestorsTrail ==
    op = "flatten" =>
        \A i \in 1..Len(lines) :
            LET node == LineNodes[i]
                anc  == RootFirst(Ancestors(node))
            IN  lines[i].first_part =
                    [k \in 1..Len(anc) |->
                        IF DrawnLast(anc[k]) THEN BlankSegment ELSE BarSegment]
                    \o <<connector(style, DrawnLast(node))>>

\* a line two levels down whose parent is followed by a visible sibling:
\* a blank segment for the root, then a bar for the parent
C29_Witness ==
    /\ op = "flatten"
    /\ \E i \in 1..Len(lines) :
          /\ Len(lines[i].first_part) = 3
          /\ lines[i].first_part[1] = BlankSegment
          /\ lines[i].first_part[2] = BarSegment

\* the rows the claim describes for the lines ls, the first line sc, a tree
\* area of h rows and the width w: the lines sc .. min(n, sc + h) - 1 (counted
\* from 0), then h - (n - sc) blank rows if n - sc < h
RowsOfTreeArea(ls, sc, h, w) ==
    LET n     == Len(ls)
        upto  == Min({n, sc + h})
        blank == IF n - sc < h THEN h - (n - sc) ELSE 0
    IN  [i \in 1..(upto - sc) |-> line_to_string(ls[sc + i], re, w)]
        \o [i \in 1..blank |-> blank_row(w)]

\* the heights of a tree area tried on each set of lines
AreaHeights == 0..6

\* C28: for n lines, scroll <= n and a tree area of H rows render_tree emits
\* exactly H rows: the lines scroll .. min(n, scroll + H) - 1 in order, then
\* H - (n - scroll) blank rows of the full width when n - scroll < H.  Stated
\* for the frame render has drawn and for every scroll <= n and height on the
\* lines it has flattened.
C28_TreeAreaRows ==
    (op = "render" /\ status = "running" /\ fault = "none") =>
        /\ Len(frame.rows) = screen_size[2] - 3
        /\ frame.rows = RowsOfTreeArea(lines, scroll, screen_size[2] - 3,
                                       screen_size[1])
        /\ \A sc \in 0..Len(lines), h \in AreaHeights :
              LET rows == render_tree(lines, screen_size[1], h, sc, re, FALSE)
              IN  Len(rows) = h /\ rows = RowsOfTreeArea(lines, sc, h, screen_size[1])

\* a frame drawn from the second line on whose tree area holds lines and,
\* below them, blank rows
C28_Witness ==
    /\ op = "render"
    /\ status = "running"
    /\ fault = "none"
    /\ scroll > 0
    /\ frame.rows[1].kind = "line"
    /\ Last(frame.rows).kind = "blank"

---------------------------------------------------------------------------
(* Properties of render's arithmetic and of the fallback to the last good   *)
(* pattern                                                                  *)

\* C30: whatever size the terminal reports, heights below 3 rows included,
\* and for every cursor_pos <= len(pattern), the height of the tree area
\* (rows - 3) does not go below 0 and the cursor column (cursor_pos + 10 in 16
\* bits) does not overflow: render neither panics nor fails to return on them.
C30_RenderArithmeticInRange ==
    op = "render" =>
        fault \notin {"height_underflow", "cursor_too_large", "cursor_overflow"}

\* the flags the matcher leaves for the regex r
MarksFor(r) ==
    [node \in Nodes |-> \E d \in {node} \cup Descendants(node) : name_matches(d, r)]

\* "Invalid Pattern"
InvalidPatternWords == SubSeq(InvalidPatternText, 1, 15)

\* the matcher step of an iteration: a pattern that compiles is marked and
\* the flag cleared, one that does not leaves the marks and the regex of the
\* last pattern that compiled, raises the flag and ends nothing
FallbackToLastGoodPattern ==
    op' = "mark" =>
        IF compile(pattern).valid
        THEN /\ pattern_is_valid'
             /\ re' = pattern
             /\ matched' = MarksFor(pattern)
        ELSE /\ ~pattern_is_valid'
             /\ re' = re /\ matched' = matched
             /\ status' = "running" /\ result' = None

\* a rendered frame shows the nodes marked for the last pattern that
\* compiled, and its first status row is "Invalid Pattern " and the hex dump
\* cut to the width when the pattern does not compile, the hex dump alone
\* when it does
FrameFollowsLastGoodPattern ==
    (op = "render" /\ status = "running") =>
        /\ pattern_is_valid = compile(pattern).valid
        /\ matched = MarksFor(re)
        /\ { LineNodes[i] : i \in 1..Len(lines) } = { n \in Nodes : MarksFor(re)[n] }
        /\ frame.input[1] =
              fixed_length_string(
                  (IF compile(pattern).valid THEN <<>> ELSE InvalidPatternText)
                      \o hex_dump(as_bytes(pattern)),
                  screen_size[1])
        /\ (~compile(pattern).valid /\ screen_size[1] >= 15) =>
              StartsWith(frame.input[1], InvalidPatternWords)
        /\ compile(pattern).valid =>
              ~StartsWith(frame.input[1], SubSeq(InvalidPatternWords, 1, 7))

---------------------------------------------------------------------------
(* What the matcher and the renderer leave of the tree *)

---------------------------------------------------------------------------
(* Properties of the terminal modes *)

\* the session has ended: render returned, or a panic between the end of
\* term_setup and the start of term_teardown ended it
SessionEnded ==
    \/ status = "exited"
    \/ status = "panicked" /\ op \notin {"term_setup", "term_teardown"}

\* C24: on every path by which the session ends once raw mode and the
\* alternate screen are acquired (the key that leaves the loop, and any
\* panic between term_setup and term_teardown) both are released, each
\* exactly once: none is left acquired, none released twice.
C24_TerminalReleasedExactlyOnce ==
    SessionEnded =>
        /\ ~terminal.raw_mode /\ ~terminal.alternate_screen
        /\ terminal.raw_released = 1 /\ terminal.alternate_released = 1

---------------------------------------------------------------------------
(* Properties of build_directory_tree *)

\* the nodes of a built tree, a node before its children
RECURSIVE NodesOf(_)
RECURSIVE NodesOfAll(_, _)
NodesOfAll(ch, i) ==
    IF i > Len(ch) THEN <<>> ELSE NodesOf(ch[i]) \o NodesOfAll(ch, i + 1)
NodesOf(node) == <<node>> \o NodesOfAll(node.children, 1)

BuiltNodes == {NodesOf(tree)[i] : i \in 1..Len(NodesOf(tree))}

\* the entries a walk that skips what it cannot read has to show: the root,
\* and every readable entry of a listed directory that is shown
RECURSIVE Shown(_)
Shown(e) ==
    \/ e = Root
    \/ /\ fs.trouble[e] \notin {"entry_err", "type_err", "not_utf8"}
       /\ fs.kind[fs.parent[e]] = "dir"
       /\ fs.trouble[fs.parent[e]] # "list_fails"
       /\ Shown(fs.parent[e])

\* C25: the build never aborts: it returns a tree; a root that is not a
\* directory is a single childless node with an error; a directory whose
\* listing fails is a childless node with the OS error; the entries that
\* cannot be read are left out and every other entry is in the tree.
C25_WalkNeverAborts ==
    op = "build" =>
        /\ status # "panicked"
        /\ fs.kind[Root] # "dir" =>
              tree.children = <<>> /\ tree.error = "not_a_directory"
        /\ \A node \in BuiltNodes :
              fs.kind[node.entry] = "dir" /\ fs.trouble[node.entry] = "list_fails"
                  => node.children = <<>> /\ node.error = "os_error"
        /\ {node.entry : node \in BuiltNodes} = {e \in 1..fs.n : Shown(e)}

\* C26: the build never exhausts the stack, and in the tree it returns a
\* symlink entry below the root has no children and the symlink colour,
\* whatever it points to, and no entry appears twice.
C26_SymlinkIsLeaf ==
    op = "build" =>
        /\ fault # "stack_overflow"
        /\ status = "running" =>
              /\ \A node \in BuiltNodes :
                    node.entry # Root /\ fs.kind[node.entry] = "symlink"
                        => node.children = <<>> /\ node.color = "YELLOW"
              /\ Len(NodesOf(tree)) <= fs.n

\* a tree built from a directory holding a symlink back to an ancestor
\* that has other entries
C26_Witness ==
    /\ op = "build"
    /\ status = "running"
    /\ \E node \in BuiltNodes :
          /\ fs.kind[node.entry] = "symlink"
          /\ fs.target[node.entry] = fs.parent[node.entry]
          /\ node.children = <<>>
    /\ Len(tree.children) >= 2

---------------------------------------------------------------------------
(* Properties of the fields a handle_input call changes *)

\* the events whose rule names no change of scroll
KeepsScroll(ev) ==
    \/ ev.kind \in {"Key", "Backspace", "Clear", "Direction"}
    \/ ev.kind = "Navigation" /\ ev.nav \in {"Home", "End"}

\* C31: a handle_input call on Clear leaves the pattern empty, the cursor 0
\* and the scroll as it was; Key, Backspace, Clear, Direction, Home and End
\* leave the scroll as it was; Direction and Navigation leave the pattern,
\* PageUp and PageDown the cursor, Enter and Exit all three as they were;
\* no call changes anything but the pattern, the cursor and the scroll.
C31_EventChangesOnlyItsFields ==
    [][op' = "input" =>
        /\ event'.kind = "Clear" =>
              pattern' = <<>> /\ cursor_pos' = 0 /\ scroll' = scroll
        /\ KeepsScroll(event') => scroll' = scroll
        /\ event'.kind \in {"Direction", "Navigation"} => pattern' = pattern
        /\ event'.kind = "Navigation" /\ event'.nav \in {"PageUp", "PageDown"}
              => cursor_pos' = cursor_pos
        /\ event'.kind \in {"Enter", "Exit"} =>
              pattern' = pattern /\ cursor_pos' = cursor_pos /\ scroll' = scroll
        /\ UNCHANGED <<treeVars, pattern_is_valid, renderVars, envVars>>]_vars

\* a Clear handled with the lines scrolled by two pages
C31_Witness ==
    /\ op = "input"
    /\ event.kind = "Clear"
    /\ scroll = 2 * PAGE_STEP
    /\ pattern = <<>> /\ cursor_pos = 0

---------------------------------------------------------------------------
(* Properties of a root whose path has no final component *)

SomeChildMatched(node) ==
    \E i \in 1..Len(children(node)) : matched[children(node)[i]]

\* C32: once the matcher has run, a root whose path has no final component
\* does not match by its name whatever the pattern, it is matched exactly
\* when one of its children is, and flatten_tree gives no line at all when
\* none is and a first line labelled "." for the root when one is.
C32_NamelessRootVisibleIffChildIs ==
    (re # NoRegex /\ ~has_file_name(Root)) =>
        /\ ~name_matches(Root, re)
        /\ matched[Root] <=> SomeChildMatched(Root)
        /\ op = "flatten" =>
              /\ ~SomeChildMatched(Root) => lines = <<>>
              /\ SomeChildMatched(Root) =>
                    lines[1].node = Root /\ lines[1].last_part = DotLabel

\* the lines flattened after the matcher ran with the empty pattern, which
\* matches every name, on a root without final component and without
\* children
C32_Witness ==
    /\ op = "flatten"
    /\ re = RegexEmpty
    /\ ~has_file_name(Root)
    /\ children(Root) = <<>>
    /\ lines = <<>>

---------------------------------------------------------------------------
(* Properties of the loop on a finite standard input *)

\* the first handle_input call made with standard input exhausted gets Exit
\* from the decoder and returns a terminating result: one frame is drawn
\* between the call that consumed the last byte and that one
ExitOnceStreamIsConsumed ==
    [][(stdin = <<>> /\ op = "render" /\ op' = "input") =>
          event' = Exit /\ result' # None /\ status' = "exited"]_vars

\* C33: on a finite standard input the loop terminates by a handle_input
\* call that returns a terminating result, and once the last byte is
\* consumed, be it inside an escape sequence, the next decoder call returns
\* Exit, so that at most one frame is drawn in between.
C33_FiniteStreamEndsTheLoop ==
    /\ <>(status = "exited" /\ result # None)
    /\ ExitOnceStreamIsConsumed

---------------------------------------------------------------------------
(* Properties of the incremental read of the directory *)

\* C34: when a read_dir_incremental call of the tick arm returns None, the
\* tree holds what read_dir_recursive builds from the same directory: every
\* entry that is not skipped, once, under the same parent and in the same
\* order.
C34_IncrementalBuildsTheRecursiveTree ==
    (op = "scan" /\ ~running) =>
        tree.children = read_dir_recursive(<<>>, -1).children

====
